---- MODULE Spec2Model ----
(***************************************************************************)
(* Model of src/pharma_full_automation.py: the PharmaceuticalFullAutomation *)
(* engine (initialize_repository_automation and the step methods it calls), *)
(* the batch driver main(), the file publisher upload_file_to_branch and    *)
(* the version computation of create_automated_release.                    *)
(*                                                                         *)
(* Every remote request is answered by the environment with a status code  *)
(* or with a transport exception (EXC): requests.get/post/put/patch raise   *)
(* on connection errors.                                                   *)
(*                                                                         *)
(* The generate_* methods build text from templates; the model treats the   *)
(* text as an opaque payload and models only the control flow around it.    *)
(* Two facts about the templates as written:                                *)
(*  - the f-string of generate_full_automation_workflow has an unbalanced   *)
(*    brace at line 1176, so the file compiles only with that template      *)
(*    repaired;                                                             *)
(*  - the class body calls self.generate_release_automation_workflow (line  *)
(*    326) and self.generate_quality_assurance_workflow (line 332) but      *)
(*    defines neither.  instance_attrs is the set of attributes the         *)
(*    instance resolves: ClassMethods for an instance of the class as       *)
(*    written (the lookup raises AttributeError), or ClassMethods plus the  *)
(*    two generators for an instance of a subclass that supplies them.      *)
(***************************************************************************)
EXTENDS Integers, Sequences, FiniteSets, TLC

\* ---------------------------------------------------------------- bounds
\* Non-fatal remote rejections (a rejected branch creation, a failed upload)
\* the environment injects into one run.
MaxFaults == 1
\* Largest version component of the tags the remote holds initially.
MaxVer == 10
\* Number of tags the remote tag list may hold.
MaxTags == 3
\* Writes the concurrent writer performs.
MaxWrites == 2

\* ------------------------------------------------------------- constants
EXC == "EXC"
None == "None"
NoError == "NoError"

Levels == {"basic", "professional", "research_grade", "enterprise"}

BranchStrategies == {"gitflow", "github_flow", "research_flow"}

\* The (automation_level, branch_strategy) combinations explored; the last one
\* is the configuration main() builds.
LevelStrategyPairs ==
  { <<"basic", "github_flow">>, <<"professional", "gitflow">>,
    <<"enterprise", "research_flow">>, <<"research_grade", "research_flow">> }

test_repositories == <<"pharmaceutical-autocraft-test", "The-Omega-Convergence-Manifold">>

\* Methods the class body defines (the def lines of the class).
ClassMethods ==
  { "initialize_repository_automation", "setup_repository_structure",
    "implement_branch_strategy", "get_main_branch_sha",
    "generate_comprehensive_content", "generate_automated_readme",
    "generate_full_automation_workflow", "upload_file_to_branch",
    "setup_cicd_pipeline", "setup_quality_gates", "generate_zenodo_doi",
    "create_automated_pull_request", "create_automated_release",
    "setup_monitoring_analytics", "generate_automation_config",
    "generate_automated_citation", "generate_automated_manuscript",
    "generate_automated_data_management", "setup_auto_merge_policies" }

\* Methods generate_comprehensive_content calls that the class does not define.
MissingGenerators ==
  { "generate_release_automation_workflow", "generate_quality_assurance_workflow" }

branches_to_create ==
  <<"develop", "research/pharmaceutical-enhancement", "manuscript/auto-generation">>

\* The uploads of generate_comprehensive_content, in order.
ContentFiles ==
  << [gen |-> "generate_automated_readme", branch |-> "develop",
      path |-> "README.md"],
     [gen |-> "generate_automated_citation", branch |-> "develop",
      path |-> "CITATION.cff"],
     [gen |-> "generate_full_automation_workflow", branch |-> "develop",
      path |-> ".github/workflows/full_automation.yml"],
     [gen |-> "generate_release_automation_workflow", branch |-> "develop",
      path |-> ".github/workflows/automated_release.yml"],
     [gen |-> "generate_quality_assurance_workflow", branch |-> "develop",
      path |-> ".github/workflows/quality_assurance.yml"],
     [gen |-> "generate_automated_manuscript", branch |-> "manuscript/auto-generation",
      path |-> "MANUSCRIPT.md"],
     [gen |-> "generate_automated_data_management", branch |-> "develop",
      path |-> "DATA_MANAGEMENT.md"],
     [gen |-> "generate_automation_config", branch |-> "develop",
      path |-> ".automation/config.yml"] >>

\* Step operations of the engine, in the order of initialize_repository_automation.
StepOps ==
  << "setup_repository_structure", "implement_branch_strategy",
     "generate_comprehensive_content", "setup_cicd_pipeline", "setup_quality_gates",
     "generate_zenodo_doi", "create_automated_pull_request",
     "create_automated_release", "setup_monitoring_analytics" >>

Range(s) == { s[i] : i \in DOMAIN s }

\* ------------------------------------------------- strings and versions
DigitChars == <<"0", "1", "2", "3", "4", "5", "6", "7", "8", "9">>

IsDigit(c) == c \in Range(DigitChars)

DigitVal(c) == (CHOOSE i \in DOMAIN DigitChars : DigitChars[i] = c) - 1

\* int(s) for a non-empty sequence of decimal digits.
RECURSIVE StrToInt(_)
StrToInt(s) ==
  IF s = <<>> THEN 0
  ELSE StrToInt(SubSeq(s, 1, Len(s) - 1)) * 10 + DigitVal(s[Len(s)])

\* str(n) for n >= 0, as the f-string renders an int.
RECURSIVE IntToStr(_)
IntToStr(n) ==
  IF n < 10 THEN <<DigitChars[n + 1]>>
  ELSE IntToStr(n \div 10) \o <<DigitChars[(n % 10) + 1]>>

\* Length of the longest run of digits of s starting at position i (\d+ is greedy).
RECURSIVE DigitRun(_, _)
DigitRun(s, i) ==
  IF i <= Len(s) /\ IsDigit(s[i]) THEN 1 + DigitRun(s, i + 1) ELSE 0

NoMatch == <<>>

\* current_version / new_version before they are bound.
NoVersion == <<>>

\* re.match(r'v?(\d+)\.(\d+)\.(\d+)', s): the three groups as ints, or NoMatch.
\* The match is anchored at the start only; the optional prefix is a lowercase v.
VersionMatch(s) ==
  LET p1 == IF Len(s) >= 1 /\ s[1] = "v" THEN 2 ELSE 1
      n1 == DigitRun(s, p1)
      d1 == p1 + n1
      p2 == d1 + 1
      n2 == DigitRun(s, p2)
      d2 == p2 + n2
      p3 == d2 + 1
      n3 == DigitRun(s, p3)
  IN IF /\ n1 >= 1 /\ d1 <= Len(s) /\ s[d1] = "."
        /\ n2 >= 1 /\ d2 <= Len(s) /\ s[d2] = "."
        /\ n3 >= 1
     THEN << StrToInt(SubSeq(s, p1, p1 + n1 - 1)),
             StrToInt(SubSeq(s, p2, p2 + n2 - 1)),
             StrToInt(SubSeq(s, p3, p3 + n3 - 1)) >>
     ELSE NoMatch

\* f"v{major}.{minor}.{patch}"
RenderVersion(major, minor, patch) ==
  <<"v">> \o IntToStr(major) \o <<".">> \o IntToStr(minor) \o <<".">> \o IntToStr(patch)

InitialVersion == <<"v", "1", ".", "0", ".", "0">>

\* Mutant of NewVersion: the patch component is incremented instead.
NewVersionPatchBump(tags_status, tags) ==
  IF tags_status = "200" /\ tags # <<>>
  THEN LET m == VersionMatch(tags[1])
       IN IF m # NoMatch THEN RenderVersion(m[1], m[2], m[3] + 1)
          ELSE <<"v", "1", ".", "0", ".", "0">>
  ELSE <<"v", "1", ".", "0", ".", "0">>

\* Mutant of NewVersion: without a prior tag the version is computed from (0,0,0).
NewVersionFromZero(tags_status, tags) ==
  IF tags_status = "200" /\ tags # <<>>
  THEN LET m == VersionMatch(tags[1])
       IN IF m # NoMatch THEN RenderVersion(m[1], m[2] + 1, 0)
          ELSE RenderVersion(0, 1, 0)
  ELSE RenderVersion(0, 1, 0)

\* new_version of create_automated_release from the tags response: its status
\* and the tag names it lists (newest first).
NewVersion(tags_status, tags) ==
  IF tags_status = "200" /\ tags # <<>>
  THEN LET m == VersionMatch(tags[1])
       IN IF m # NoMatch THEN RenderVersion(m[1], m[2] + 1, 0) ELSE InitialVersion
  ELSE InitialVersion

\* ------------------------------------------------------------------ state
VARIABLES
  config,             \* AutomationConfig of the instance (never mutated)
  instance_attrs,     \* method names the instance resolves
  pc,                 \* position of main() / of the run in progress
  repo_idx,           \* main(): index of the repository being processed
  automation_result,  \* the result dict of the run in progress / last returned
  automation_status,  \* self.automation_status
  branch_i,           \* implement_branch_strategy: loop index
  created_branches,   \* implement_branch_strategy: created_branches
  branch_answers,     \* implement_branch_strategy: answers to the branch creation requests
  strategy_config,    \* implement_branch_strategy: config, the plan looked up
  file_i,             \* generate_comprehensive_content: next upload
  files_created,      \* generate_comprehensive_content: files_created
  upload_returns,     \* values the upload_file_to_branch calls returned
  doi_result,         \* local doi_result (None before the call)
  pr_result,          \* local pr_result
  release_result,     \* local release_result
  current_version,    \* create_automated_release: current_version
  new_version,        \* create_automated_release: new_version (tag_name sent)
  request_log,        \* kinds of remote requests issued during the run
  calls,              \* number of invocations of each step operation in the run
  faults,             \* non-fatal rejections injected into the run
  remote_tags,        \* host: tag names of the repository, newest first
  remote_branches,    \* host: branches of the repository
  remote_files,       \* host: content of each path on the branch (NoFile: absent)
  writes,             \* writes the concurrent writer has performed
  up_pc,              \* upload_file_to_branch: position ("idle": no call in progress)
  up_args,            \* upload_file_to_branch: branch, file_path, content
  upload_data,        \* upload_file_to_branch: upload_data (sha None: key absent)
  up_return,          \* value the last upload_file_to_branch call returned
  read_seen,          \* host content of the path when the contents lookup was answered
  last_put,           \* the contents PUT the call in progress / last call issued
  up_answers,         \* answers the call in progress / last call received, in order
  prev_call,          \* the upload_file_to_branch call that finished before this one
  setup_call          \* the last direct call of setup_repository_structure

engine_locals ==
  << branch_i, created_branches, branch_answers, strategy_config, file_i, files_created, upload_returns,
     doi_result, pr_result, release_result, current_version, new_version >>

remote_vars == << remote_tags, remote_branches, remote_files, writes >>

upload_locals ==
  << up_pc, up_args, upload_data, up_return, read_seen, last_put, up_answers,
     prev_call >>

\* State of the direct calls, which an engine run leaves alone.
direct_vars == << remote_vars, upload_locals, setup_call >>

vars ==
  << config, instance_attrs, pc, repo_idx, automation_result, automation_status,
     engine_locals, request_log, calls, faults, direct_vars >>

\* zenodo_headers of __init__: a dict when a token is configured, else None.
zenodo_headers == IF config.zenodo_token # None THEN "headers" ELSE None

\* AutomationConfig: the fields the control flow and the result read
\* (github_token, semantic_versioning and quality_gates only reach templates).
Configs ==
  { [ automation_level |-> ls[1], branch_strategy |-> ls[2], auto_release |-> r,
      auto_doi |-> d, auto_pr |-> p, zenodo_token |-> z ] :
      ls \in LevelStrategyPairs, r \in BOOLEAN, d \in BOOLEAN, p \in BOOLEAN,
      z \in {None, "token"} }

\* automation_status of __init__.
InitialStatus ==
  [ repositories_processed |-> <<>>, dois_generated |-> <<>>,
    branches_created |-> <<>>, prs_created |-> <<>>,
    releases_published |-> <<>>, errors |-> <<>> ]

\* automation_result as initialize_repository_automation creates it; the key
\* "error" exists only after a failure (NoError: the key is absent).
InitialResult(repo_name) ==
  [ repository |-> repo_name, automation_level |-> config.automation_level,
    branch_strategy |-> config.branch_strategy,
    steps_completed |-> <<>>, artifacts_created |-> <<>>, urls_generated |-> <<>>,
    doi |-> None, success |-> FALSE, error |-> NoError ]

NoCalls == [ op \in Range(StepOps) |-> 0 ]

\* A step's local result before the step ran (the name is unbound in Python).
NoResultYet == [ called |-> FALSE, success |-> FALSE, id |-> None, error |-> NoError ]

\* The dicts the optional step methods return.
Success(id) == [ called |-> TRUE, success |-> TRUE, id |-> id, error |-> NoError ]

Failure(msg) == [ called |-> TRUE, success |-> FALSE, id |-> None, error |-> msg ]

NoReleaseYet == [ NoResultYet EXCEPT !.id = NoVersion ]

ReleaseFailure(msg) == [ Failure(msg) EXCEPT !.id = NoVersion ]

\* implement_branch_strategy: the local config before the lookup.
NoStrategyConfig == [ branches |-> <<>>, protection |-> <<>>, auto_merge |-> FALSE ]

LocalsInit ==
  /\ branch_i = 1
  /\ created_branches = <<>>
  /\ branch_answers = <<>>
  /\ strategy_config = NoStrategyConfig
  /\ file_i = 1
  /\ files_created = <<>>
  /\ upload_returns = <<>>
  /\ doi_result = NoResultYet
  /\ pr_result = NoResultYet
  /\ release_result = NoReleaseYet
  /\ current_version = NoVersion
  /\ new_version = NoVersion

NoFile == "NoFile"

NoArgs == [ branch |-> None, path |-> None, content |-> None ]

\* upload_data without the key "sha".
NoSha == <<>>

NoUploadData == [ content |-> <<>>, branch |-> None, sha |-> NoSha ]

\* A contents PUT as the host saw it: the sha it carried, the content of the
\* path when the lookup was answered (at_read), just before the write (before)
\* and just after it (after), and whether the host applied it.
NoPut == [ issued |-> FALSE, path |-> None, sha |-> NoSha, at_read |-> NoFile,
           before |-> NoFile, after |-> NoFile, accepted |-> FALSE ]

\* No earlier upload_file_to_branch call.
NoPrevCall ==
  [ args |-> NoArgs, answers |-> <<>>, put |-> NoPut, ret |-> None, writes |-> 0 ]

\* No direct call of setup_repository_structure was made: the answers of the
\* host to the repository lookup, create, settings patch and protection put,
\* and the message of the exception raised (NoError: it returned).
NoSetupCall ==
  [ called |-> FALSE, get |-> None, create |-> None, patch |-> None, prot |-> None,
    raised |-> NoError ]

UploadIdle ==
  /\ up_pc = "idle"
  /\ up_args = NoArgs
  /\ upload_data = NoUploadData
  /\ up_return = None
  /\ read_seen = NoFile
  /\ last_put = NoPut
  /\ up_answers = <<>>
  /\ prev_call = NoPrevCall

EngineIdle ==
  /\ repo_idx = 1
  /\ automation_result = InitialResult(None)
  /\ automation_status = InitialStatus
  /\ LocalsInit
  /\ request_log = {}
  /\ calls = NoCalls
  /\ faults = 0

Init ==
  /\ config \in Configs
  /\ instance_attrs \in { ClassMethods, ClassMethods \cup MissingGenerators }
  /\ pc = "main"
  /\ EngineIdle
  /\ remote_tags = <<>>
  /\ remote_branches = {}
  /\ remote_files = << >>
  /\ writes = 0
  /\ UploadIdle
  /\ setup_call = NoSetupCall

\* ----------------------------------------------------------- the engine
Called(op) == calls' = [calls EXCEPT ![op] = @ + 1]

\* Mutant of Completed: the step name is inserted at the front of the list.
CompletedAtFront(step) ==
  [automation_result EXCEPT !.steps_completed = <<step>> \o @]

Completed(step) ==
  [automation_result EXCEPT !.steps_completed = Append(@, step)]

\* Mutant of Raise: the except clause drops the message.
RaiseSilent(msg) ==
  /\ automation_result' = automation_result
  /\ automation_status' = automation_status
  /\ pc' = "returned"

\* The except clause of initialize_repository_automation and its return.
Raise(msg) ==
  /\ automation_result' = [automation_result EXCEPT !.error = msg]
  /\ automation_status' =
       [automation_status EXCEPT
          !.errors = Append(@, [repository |-> automation_result.repository,
                                error |-> msg])]
  /\ pc' = "returned"

\* main(): the for loop takes the next repository and calls
\* initialize_repository_automation, which builds the result dict.
StartRun ==
  /\ pc = "main"
  /\ repo_idx <= Len(test_repositories)
  /\ automation_result' = InitialResult(test_repositories[repo_idx])
  /\ pc' = "repository_setup"
  /\ branch_i' = 1
  /\ created_branches' = <<>>
  /\ branch_answers' = <<>>
  /\ strategy_config' = NoStrategyConfig
  /\ file_i' = 1
  /\ files_created' = <<>>
  /\ upload_returns' = <<>>
  /\ doi_result' = NoResultYet
  /\ pr_result' = NoResultYet
  /\ release_result' = NoReleaseYet
  /\ current_version' = NoVersion
  /\ new_version' = NoVersion
  /\ request_log' = {}
  /\ calls' = NoCalls
  /\ faults' = 0
  /\ UNCHANGED << direct_vars, config, instance_attrs, repo_idx, automation_status >>

\* Mutant of SetupError: a rejected settings update fails the step.
SetupErrorOnRejectedSettings(get, create, patch, prot) ==
  IF get = EXC THEN "RequestException"
  ELSE IF get = "404" /\ create = EXC THEN "RequestException"
  ELSE IF get = "404" /\ create # "201" THEN "Failed to create repository"
  ELSE IF patch = EXC THEN "RequestException"
  ELSE IF patch # "200" THEN "Failed to update settings"
  ELSE IF prot = EXC THEN "RequestException"
  ELSE NoError

\* setup_repository_structure: the error it raises for the given answers to
\* the repository lookup, create, settings patch and protection put.
SetupError(get, create, patch, prot) ==
  IF get = EXC THEN "RequestException"
  ELSE IF get = "404" /\ create = EXC THEN "RequestException"
  ELSE IF get = "404" /\ create # "201" THEN "Failed to create repository"
  ELSE IF patch = EXC THEN "RequestException"
  ELSE IF prot = EXC THEN "RequestException"
  ELSE NoError

\* setup_repository_structure: the requests it issues for those answers.
SetupRequests(get, create, patch, prot) ==
  {"GET repo"}
  \cup (IF get = "404" THEN {"POST user/repos"} ELSE {})
  \cup (IF get # EXC /\ (get = "404" => create = "201")
        THEN {"PATCH repo"} \cup (IF patch # EXC THEN {"PUT protection"} ELSE {})
        ELSE {})

\* Step 1
SetupRepositoryStructure ==
  /\ pc = "repository_setup"
  /\ \E get \in {"200", "404", "403", EXC}, create \in {"201", "422", EXC},
        patch \in {"200", "403", EXC}, prot \in {"200", "403", EXC} :
       LET err == SetupError(get, create, patch, prot)
       IN /\ request_log' = request_log \cup SetupRequests(get, create, patch, prot)
          /\ IF err = NoError
             THEN /\ automation_result' = Completed("repository_setup")
                  /\ pc' = "branch_strategy"
                  /\ UNCHANGED automation_status
             ELSE Raise(err)
  /\ Called("setup_repository_structure")
  /\ UNCHANGED << direct_vars, config, instance_attrs, repo_idx, engine_locals, faults >>

\* get_main_branch_sha: the error it raises for the answer to the ref lookup.
MainShaError(ref) ==
  IF ref = EXC THEN "RequestException"
  ELSE IF ref # "200" THEN "Failed to get main branch SHA"
  ELSE NoError

\* Mutant of branch_configs: the github_flow plan protects develop as well.
branch_configs_develop_protected ==
  [ strategy \in BranchStrategies |->
      CASE strategy = "research_flow" ->
             [ branches |-> <<"main", "develop", "feature/", "research/",
                              "manuscript/", "release/">>,
               protection |-> <<"main", "develop">>, auto_merge |-> TRUE ]
        [] strategy = "gitflow" ->
             [ branches |-> <<"main", "develop", "feature/", "release/", "hotfix/">>,
               protection |-> <<"main", "develop">>, auto_merge |-> TRUE ]
        [] strategy = "github_flow" ->
             [ branches |-> <<"main", "feature/">>,
               protection |-> <<"main", "develop">>, auto_merge |-> TRUE ] ]

\* implement_branch_strategy: the plan of each branching strategy.
branch_configs ==
  [ strategy \in BranchStrategies |->
      CASE strategy = "research_flow" ->
             [ branches |-> <<"main", "develop", "feature/", "research/",
                              "manuscript/", "release/">>,
               protection |-> <<"main", "develop">>, auto_merge |-> TRUE ]
        [] strategy = "gitflow" ->
             [ branches |-> <<"main", "develop", "feature/", "release/", "hotfix/">>,
               protection |-> <<"main", "develop">>, auto_merge |-> TRUE ]
        [] strategy = "github_flow" ->
             [ branches |-> <<"main", "feature/">>,
               protection |-> <<"main">>, auto_merge |-> TRUE ] ]

\* Mutant of CreatedAfter: the branch is listed whatever the answer.
CreatedAfterAnyAnswer(created, branch, post) == Append(created, branch)

\* implement_branch_strategy: created_branches after the answer to the
\* creation request of one branch.
CreatedAfter(created, branch, post) ==
  IF post = "201" THEN Append(created, branch) ELSE created

\* Step 2, one iteration of the loop over branches_to_create; the first one
\* starts with the lookup of the strategy's plan.
CreateBranch ==
  /\ pc = "branch_strategy"
  /\ branch_i <= Len(branches_to_create)
  /\ strategy_config' = branch_configs[config.branch_strategy]
  /\ calls' = IF branch_i = 1
              THEN [calls EXCEPT !["implement_branch_strategy"] = @ + 1]
              ELSE calls
  /\ \E ref \in {"200", "404", EXC}, post \in {"201", "422", EXC} :
       LET err == IF MainShaError(ref) # NoError THEN MainShaError(ref)
                  ELSE IF post = EXC THEN "RequestException" ELSE NoError
       IN /\ request_log' = request_log \cup {"GET ref main"}
                \cup (IF MainShaError(ref) = NoError THEN {"POST git/refs"} ELSE {})
          /\ IF err # NoError
             THEN /\ Raise(err)
                  /\ UNCHANGED << branch_i, created_branches, branch_answers, faults >>
             ELSE /\ post # "201" => faults < MaxFaults
                  /\ faults' = IF post # "201" THEN faults + 1 ELSE faults
                  /\ created_branches' =
                       CreatedAfter(created_branches, branches_to_create[branch_i], post)
                  /\ branch_answers' = Append(branch_answers, post)
                  /\ branch_i' = branch_i + 1
                  /\ UNCHANGED << automation_result, automation_status, pc >>
  /\ UNCHANGED << direct_vars, config, instance_attrs, repo_idx, file_i, files_created,
                  upload_returns, doi_result, pr_result, release_result,
                  current_version, new_version >>

\* Step 2, after the loop: setup_auto_merge_policies, the return, and the
\* engine's bookkeeping.
BranchStrategyReturn ==
  /\ pc = "branch_strategy"
  /\ branch_i > Len(branches_to_create)
  /\ automation_result' =
       [automation_result EXCEPT
          !.steps_completed = Append(@, "branch_strategy"),
          !.artifacts_created = @ \o created_branches]
  /\ pc' = "content_generation"
  /\ UNCHANGED << direct_vars, config, instance_attrs, repo_idx, automation_status,
                  engine_locals, request_log, calls, faults >>

\* Mutant of BranchFound: the status of the branch ref lookup is not checked.
BranchFoundAnyStatus(ref) == TRUE

\* upload_file_to_branch: the branch ref lookup found the branch.
BranchFound(ref) == ref = "200"

\* Mutant of IncludeSha: the sha of the existing file is never sent.
IncludeShaNever(file) == FALSE

\* upload_file_to_branch: the sha of the contents lookup goes into upload_data.
IncludeSha(file) == file = "200"

\* Mutant of UploadSucceeded: a conflict answer counts as uploaded.
UploadSucceededOnConflict(put) == put \in {"200", "201", "409", "422"}

\* Mutant of UploadSucceeded: a permission-denied answer counts as uploaded.
UploadSucceededOnDenied(put) == put \in {"200", "201", "403"}

\* upload_file_to_branch: the answer to the contents put means success.
UploadSucceeded(put) == put \in {"200", "201"}

\* upload_file_to_branch: its return value for the answers to the branch ref
\* lookup, the contents lookup and the contents put.

UploadReturn(ref, file, put) ==
  /\ ref # EXC
  /\ BranchFound(ref)
  /\ file # EXC
  /\ put # EXC
  /\ UploadSucceeded(put)

UploadRequests(ref, file, put) ==
  {"GET ref branch"}
  \cup (IF ref # EXC /\ BranchFound(ref)
        THEN {"GET contents"} \cup (IF file # EXC THEN {"PUT contents"} ELSE {})
        ELSE {})

\* Step 3, one generated file: the generator call, the upload and the append.
UploadContentFile ==
  /\ pc = "content_generation"
  /\ file_i <= Len(ContentFiles)
  /\ calls' = IF file_i = 1
              THEN [calls EXCEPT !["generate_comprehensive_content"] = @ + 1]
              ELSE calls
  /\ IF ContentFiles[file_i].gen \notin instance_attrs
     THEN /\ Raise("AttributeError")
          /\ UNCHANGED << file_i, files_created, upload_returns, request_log, faults >>
     ELSE \E ref \in {"200", "404", EXC}, file \in {"200", "404", EXC},
             put \in {"200", "201", "403", "409", EXC} :
            LET ok == UploadReturn(ref, file, put)
            IN /\ ~ok => faults < MaxFaults
               /\ faults' = IF ok THEN faults ELSE faults + 1
               /\ request_log' = request_log \cup UploadRequests(ref, file, put)
               /\ upload_returns' = Append(upload_returns, ok)
               /\ files_created' = Append(files_created, ContentFiles[file_i].path)
               /\ file_i' = file_i + 1
               /\ UNCHANGED << automation_result, automation_status, pc >>
  /\ UNCHANGED << direct_vars, config, instance_attrs, repo_idx, branch_i, created_branches, branch_answers, strategy_config,
                  doi_result, pr_result, release_result, current_version,
                  new_version >>

\* Step 3, the return and the engine's bookkeeping.
ContentGenerationReturn ==
  /\ pc = "content_generation"
  /\ file_i > Len(ContentFiles)
  /\ automation_result' =
       [automation_result EXCEPT
          !.steps_completed = Append(@, "content_generation"),
          !.artifacts_created = @ \o files_created]
  /\ pc' = "cicd_pipeline"
  /\ UNCHANGED << direct_vars, config, instance_attrs, repo_idx, automation_status,
                  engine_locals, request_log, calls, faults >>

\* Step 4
SetupCicdPipeline ==
  /\ pc = "cicd_pipeline"
  /\ Called("setup_cicd_pipeline")
  /\ automation_result' = Completed("cicd_pipeline")
  /\ pc' = "quality_gates"
  /\ UNCHANGED << direct_vars, config, instance_attrs, repo_idx, automation_status,
                  engine_locals, request_log, faults >>

\* Step 5
SetupQualityGates ==
  /\ pc = "quality_gates"
  /\ Called("setup_quality_gates")
  /\ automation_result' = Completed("quality_gates")
  /\ pc' = "zenodo_doi"
  /\ UNCHANGED << direct_vars, config, instance_attrs, repo_idx, automation_status,
                  engine_locals, request_log, faults >>

\* generate_zenodo_doi: no request is sent; the placeholder DOI is returned.
GenerateZenodoDoi ==
  IF zenodo_headers = None THEN Failure("No Zenodo token")
  ELSE Success("10.5281/zenodo.XXXXXXX")

\* Mutant of DoiGate: the archival credential is not consulted.
DoiGateNoCredential == config.auto_doi

\* The gate of step 6.
DoiGate == config.auto_doi /\ zenodo_headers # None

\* Mutant of ZenodoDoi: the step name is recorded but the doi field is not set.
ZenodoDoiWithoutField ==
  /\ pc = "zenodo_doi"
  /\ IF DoiGate
     THEN /\ Called("generate_zenodo_doi")
          /\ doi_result' = GenerateZenodoDoi
          /\ automation_result' =
               IF doi_result'.success
               THEN [automation_result EXCEPT
                       !.steps_completed = Append(@, "zenodo_doi")]
               ELSE automation_result
     ELSE UNCHANGED << calls, doi_result, automation_result >>
  /\ pc' = "automated_pr"
  /\ UNCHANGED << direct_vars, config, instance_attrs, repo_idx, automation_status, branch_i,
                  created_branches, branch_answers, strategy_config, file_i,
                  files_created, upload_returns, pr_result, release_result,
                  current_version, new_version, request_log, faults >>

\* Step 6
ZenodoDoi ==
  /\ pc = "zenodo_doi"
  /\ IF DoiGate
     THEN /\ Called("generate_zenodo_doi")
          /\ doi_result' = GenerateZenodoDoi
          /\ automation_result' =
               IF doi_result'.success
               THEN [automation_result EXCEPT
                       !.doi = doi_result'.id,
                       !.steps_completed = Append(@, "zenodo_doi")]
               ELSE automation_result
     ELSE UNCHANGED << calls, doi_result, automation_result >>
  /\ pc' = "automated_pr"
  /\ UNCHANGED << direct_vars, config, instance_attrs, repo_idx, automation_status, branch_i,
                  created_branches, branch_answers, strategy_config, file_i, files_created, upload_returns,
                  pr_result, release_result, current_version, new_version,
                  request_log, faults >>

\* create_automated_pull_request: the dict it returns for the answer to the
\* pull-request POST (number: the PR number of a 201 response).
PullRequestResult(post, number) ==
  IF post = EXC THEN Failure("RequestException")
  ELSE IF post = "201" THEN Success(number)
  ELSE Failure("response text")

\* The engine's bookkeeping after create_automated_pull_request returned r.
AfterPullRequest(r) == Completed("automated_pr")

\* The gate of step 7.
PullRequestGate == config.auto_pr

\* Step 7
AutomatedPullRequest ==
  /\ pc = "automated_pr"
  /\ IF PullRequestGate
     THEN /\ Called("create_automated_pull_request")
          /\ \E post \in {"201", "422", EXC} :
               pr_result' = PullRequestResult(post, "1")
          /\ request_log' = request_log \cup {"POST pulls"}
          /\ automation_result' = AfterPullRequest(pr_result')
     ELSE UNCHANGED << calls, pr_result, request_log, automation_result >>
  /\ pc' = "automated_release"
  /\ UNCHANGED << direct_vars, config, instance_attrs, repo_idx, automation_status, branch_i,
                  created_branches, branch_answers, strategy_config, file_i, files_created, upload_returns,
                  doi_result, release_result, current_version, new_version, faults >>

\* create_automated_release: the dict it returns for the answers to the tags
\* lookup and to the release POST.
ReleaseResult(tags_status, tags, post) ==
  IF tags_status = EXC \/ post = EXC THEN ReleaseFailure("RequestException")
  ELSE IF post = "201" THEN Success(NewVersion(tags_status, tags))
  ELSE ReleaseFailure("response text")

\* create_automated_release: the requests it issues.
ReleaseRequests(tags_status) ==
  {"GET tags"} \cup (IF tags_status # EXC THEN {"POST releases"} ELSE {})

\* create_automated_release, the whole method: its locals and its result.
CreateAutomatedRelease(tags_status, tags, post) ==
  /\ current_version' =
       IF tags_status = "200" /\ tags # <<>> THEN tags[1] ELSE NoVersion
  /\ new_version' =
       IF tags_status = EXC THEN NoVersion ELSE NewVersion(tags_status, tags)
  /\ release_result' = ReleaseResult(tags_status, tags, post)

\* Tag lists the host answers with during an engine run.
EngineTagLists == { <<>>, <<RenderVersion(1, 9, 3)>> }

\* The engine's bookkeeping after create_automated_release returned r.
AfterRelease(r) == Completed("automated_release")

\* Mutant of ReleaseGate: a release is cut only after a successful pull request.
ReleaseGateAfterPullRequest == config.auto_release /\ pr_result.success

\* The gate of step 8.
ReleaseGate == config.auto_release

\* Step 8
AutomatedRelease ==
  /\ pc = "automated_release"
  /\ IF ReleaseGate
     THEN /\ Called("create_automated_release")
          /\ \E tags_status \in {"200", "404", EXC}, tags \in EngineTagLists,
                post \in {"201", "422", EXC} :
               /\ CreateAutomatedRelease(tags_status, tags, post)
               /\ request_log' = request_log \cup ReleaseRequests(tags_status)
          /\ automation_result' = AfterRelease(release_result')
     ELSE UNCHANGED << calls, release_result, current_version, new_version,
                       request_log, automation_result >>
  /\ pc' = "monitoring_analytics"
  /\ UNCHANGED << direct_vars, config, instance_attrs, repo_idx, automation_status, branch_i,
                  created_branches, branch_answers, strategy_config, file_i, files_created, upload_returns,
                  doi_result, pr_result, faults >>

\* urls_generated of a successful run.
RepositoryUrls == << "repository", "actions", "releases" >>

\* Mutant of FinalResult: success requires the optional steps that ran to succeed.
FinalResultStrict ==
  [automation_result EXCEPT
     !.steps_completed = Append(@, "monitoring_analytics"),
     !.success = (pr_result.called => pr_result.success)
                   /\ (release_result.called => release_result.success),
     !.urls_generated = RepositoryUrls]

\* Mutant of FinalResult: the URLs are not filled in.
FinalResultWithoutUrls ==
  [automation_result EXCEPT
     !.steps_completed = Append(@, "monitoring_analytics"),
     !.success = TRUE]

\* The result after step 9: the step name, the success flag and the URLs.
FinalResult ==
  [automation_result EXCEPT
     !.steps_completed = Append(@, "monitoring_analytics"),
     !.success = TRUE,
     !.urls_generated = RepositoryUrls]

\* Mutant of MonitoringAnalytics: monitoring is skipped after a failed release.
MonitoringAnalyticsUnlessReleaseFailed ==
  /\ pc = "monitoring_analytics"
  /\ IF release_result.called /\ ~release_result.success
     THEN /\ automation_result' = [automation_result EXCEPT !.success = TRUE]
          /\ UNCHANGED calls
     ELSE /\ Called("setup_monitoring_analytics")
          /\ automation_result' = FinalResult
  /\ pc' = "returned"
  /\ UNCHANGED << direct_vars, config, instance_attrs, repo_idx, automation_status,
                  engine_locals, request_log, faults >>

\* Step 9, the success bookkeeping and the return.
MonitoringAnalytics ==
  /\ pc = "monitoring_analytics"
  /\ Called("setup_monitoring_analytics")
  /\ automation_result' = FinalResult
  /\ pc' = "returned"
  /\ UNCHANGED << direct_vars, config, instance_attrs, repo_idx, automation_status,
                  engine_locals, request_log, faults >>

\* Mutant of MainReport: the loop is left after a failed run.
MainReportStopOnError ==
  /\ pc = "returned"
  /\ IF automation_result.success
     THEN repo_idx' = repo_idx + 1 /\ pc' = "main"
     ELSE repo_idx' = repo_idx /\ pc' = "exit"
  /\ UNCHANGED << direct_vars, config, instance_attrs, automation_result, automation_status,
                  engine_locals, request_log, calls, faults >>

\* Mutant of MainReport: the loop skips the repository after the reported one.
MainReportSkipsNext ==
  /\ pc = "returned"
  /\ repo_idx' = repo_idx + 2
  /\ pc' = "main"
  /\ UNCHANGED << direct_vars, config, instance_attrs, automation_result, automation_status,
                  engine_locals, request_log, calls, faults >>

\* main(): the report after a run returned; the loop advances.
MainReport ==
  /\ pc = "returned"
  /\ repo_idx' = repo_idx + 1
  /\ pc' = "main"
  /\ UNCHANGED << direct_vars, config, instance_attrs, automation_result, automation_status,
                  engine_locals, request_log, calls, faults >>

\* main(): the loop is exhausted.
MainExit ==
  /\ pc = "main"
  /\ repo_idx > Len(test_repositories)
  /\ pc' = "exit"
  /\ UNCHANGED << direct_vars, config, instance_attrs, repo_idx, automation_result,
                  automation_status, engine_locals, request_log, calls, faults >>

Next ==
  \/ StartRun
  \/ SetupRepositoryStructure
  \/ CreateBranch
  \/ BranchStrategyReturn
  \/ UploadContentFile
  \/ ContentGenerationReturn
  \/ SetupCicdPipeline
  \/ SetupQualityGates
  \/ ZenodoDoi
  \/ AutomatedPullRequest
  \/ AutomatedRelease
  \/ MonitoringAnalytics
  \/ MainReport
  \/ MainExit

Spec == Init /\ [][Next]_vars

\* ------------------------------------- create_automated_release, called directly
\* Version components of the tags the host holds initially.
VerNums == {0, 9, MaxVer}

\* prefix major.minor.patch suffix, as a tag name.
TagName(prefix, major, minor, patch, suffix) ==
  prefix \o IntToStr(major) \o <<".">> \o IntToStr(minor) \o <<".">>
         \o IntToStr(patch) \o suffix

\* Tag names that are not of the form MAJOR.MINOR.PATCH.
OtherTagNames ==
  { <<"v", "1", ".", "2">>, <<"r", "c", "1">>, <<"v", ".", "1", ".", "2">>,
    <<"1", ".", "x", ".", "2">> }

TagNames ==
  { TagName(prefix, a, b, c, suffix) :
      prefix \in { <<>>, <<"v">>, <<"V">> }, a \in VerNums, b \in VerNums,
      c \in VerNums, suffix \in { <<>>, <<"-", "r", "c">> } }
  \cup OtherTagNames

\* Tag lists of two entries, in both orders: the host lists tags in its own
\* order, which need not be by version.
TwoTagLists ==
  LET names == { TagName(<<"v">>, 0, 9, 0, <<>>), TagName(<<"v">>, 9, 0, 0, <<>>),
                 <<"r", "c", "1">> }
  IN { p \in names \X names : p[1] # p[2] }

InitRelease ==
  /\ config \in { c \in Configs :
                    c.auto_release /\ c.auto_doi /\ c.auto_pr /\ c.zenodo_token = None }
  /\ instance_attrs = ClassMethods
  /\ pc = "direct"
  /\ EngineIdle
  /\ remote_tags \in { <<>> } \cup { <<t>> : t \in TagNames } \cup TwoTagLists
  /\ remote_branches = {}
  /\ remote_files = << >>
  /\ writes = 0
  /\ UploadIdle
  /\ setup_call = NoSetupCall

\* A caller invokes create_automated_release on the instance; the host lists
\* its tags and, when it accepts the release, creates the tag.
DirectRelease ==
  /\ pc = "direct"
  /\ Len(remote_tags) < MaxTags
  /\ \E tags_status \in {"200", "404", EXC}, post \in {"201", "422", EXC} :
       /\ CreateAutomatedRelease(tags_status, remote_tags, post)
       /\ request_log' = ReleaseRequests(tags_status)
       /\ remote_tags' =
            IF release_result'.success /\ new_version' \notin Range(remote_tags)
            THEN <<new_version'>> \o remote_tags
            ELSE remote_tags
  /\ UNCHANGED << setup_call, config, instance_attrs, pc, repo_idx, automation_result,
                  automation_status, branch_i, created_branches, branch_answers, strategy_config, file_i,
                  files_created, upload_returns, doi_result, pr_result, calls,
                  faults, remote_branches, remote_files, writes, upload_locals >>

NextRelease == DirectRelease

SpecRelease == InitRelease /\ [][NextRelease]_vars

\* --------------------------------------- upload_file_to_branch, called directly
UploadPaths == { "README.md", "CITATION.cff" }

ClientContents == { "doc1", "doc2" }

WriterContents == { "theirs" }

\* base64.b64encode of the content, and the host's decoding of it.
Encode(content) == <<"b64", content>>

Decode(encoded) == encoded[2]

\* The blob sha the host reports for a file: a hash of its content.
Sha(content) == <<"sha", content>>

InitUpload ==
  /\ config \in { c \in Configs :
                    /\ c.auto_release /\ c.auto_doi /\ c.auto_pr
                    /\ c.zenodo_token = None
                    /\ c.automation_level = "research_grade" }
  /\ instance_attrs = ClassMethods
  /\ pc = "direct"
  /\ EngineIdle
  /\ remote_tags = <<>>
  /\ remote_branches \in { {}, {"develop"} }
  /\ remote_files \in [ UploadPaths -> {NoFile, "doc1"} ]
  /\ writes = 0
  /\ UploadIdle
  /\ setup_call = NoSetupCall

\* A caller invokes upload_file_to_branch(repo, branch, file_path, content, msg).
UploadCall ==
  /\ pc = "direct"
  /\ up_pc = "idle"
  /\ \E path \in UploadPaths, content \in ClientContents :
       up_args' = [ branch |-> "develop", path |-> path, content |-> content ]
  /\ up_pc' = "ref"
  /\ upload_data' = NoUploadData
  /\ up_return' = None
  /\ read_seen' = NoFile
  /\ last_put' = NoPut
  /\ up_answers' = <<>>
  /\ prev_call' =
       IF up_args = NoArgs THEN NoPrevCall
       ELSE [ args |-> up_args, answers |-> up_answers, put |-> last_put,
              ret |-> up_return, writes |-> writes ]
  /\ request_log' = {}
  /\ UNCHANGED << setup_call, config, instance_attrs, pc, repo_idx, automation_result,
                  automation_status, engine_locals, calls, faults, remote_vars >>

\* Answers of the host to the branch ref lookup.
HostRefAnswers ==
  IF up_args.branch \in remote_branches THEN {"200", "500", EXC} ELSE {"404", EXC}

\* The branch ref lookup and the early return.
UploadGetRef ==
  /\ up_pc = "ref"
  /\ \E ref \in HostRefAnswers :
       /\ up_answers' = Append(up_answers, ref)
       /\ IF ref # EXC /\ BranchFound(ref)
          THEN up_pc' = "contents" /\ UNCHANGED up_return
          ELSE up_pc' = "idle" /\ up_return' = "False"
  /\ request_log' = request_log \cup {"GET ref branch"}
  /\ UNCHANGED << setup_call, config, instance_attrs, pc, repo_idx, automation_result,
                  automation_status, engine_locals, calls, faults, remote_vars,
                  up_args, upload_data, read_seen, last_put, prev_call >>

\* Answers of the host to the contents lookup.
HostContentsAnswers ==
  IF remote_files[up_args.path] # NoFile THEN {"200", "403", EXC} ELSE {"404", EXC}

\* The contents lookup and the preparation of upload_data.
UploadGetContents ==
  /\ up_pc = "contents"
  /\ \E file \in HostContentsAnswers :
       /\ up_answers' = Append(up_answers, file)
       /\ IF file = EXC
          THEN up_pc' = "idle" /\ up_return' = "False" /\ UNCHANGED upload_data
          ELSE /\ up_pc' = "put"
               /\ upload_data' =
                    [ content |-> Encode(up_args.content), branch |-> up_args.branch,
                      sha |-> IF IncludeSha(file) THEN Sha(remote_files[up_args.path])
                              ELSE NoSha ]
               /\ UNCHANGED up_return
  /\ read_seen' = remote_files[up_args.path]
  /\ request_log' = request_log \cup {"GET contents"}
  /\ UNCHANGED << setup_call, config, instance_attrs, pc, repo_idx, automation_result,
                  automation_status, engine_locals, calls, faults, remote_vars,
                  up_args, last_put, prev_call >>

\* The host applies a contents PUT only as a create of an absent path (no
\* sha) or as a replace of the version whose sha the request carries.
HostAccepts(path, sha) ==
  IF remote_files[path] = NoFile THEN sha = NoSha
  ELSE sha = Sha(remote_files[path])

\* Answers of the host to the contents PUT.
HostPutAnswers(path, sha) ==
  IF HostAccepts(path, sha)
  THEN { IF remote_files[path] = NoFile THEN "201" ELSE "200", "403", EXC }
  ELSE { IF sha = NoSha THEN "422" ELSE "409", EXC }

\* The contents PUT and the return.
UploadPutContents ==
  /\ up_pc = "put"
  /\ \E put \in HostPutAnswers(up_args.path, upload_data.sha) :
       LET applied == put \in {"200", "201"}
       IN /\ remote_files' =
               IF applied
               THEN [remote_files EXCEPT ![up_args.path] = Decode(upload_data.content)]
               ELSE remote_files
          /\ last_put' =
               [ issued |-> TRUE, path |-> up_args.path, sha |-> upload_data.sha,
                 at_read |-> read_seen, before |-> remote_files[up_args.path],
                 after |-> remote_files'[up_args.path], accepted |-> applied ]
          /\ up_return' = IF put # EXC /\ UploadSucceeded(put) THEN "True" ELSE "False"
          /\ up_answers' = Append(up_answers, put)
  /\ up_pc' = "idle"
  /\ request_log' = request_log \cup {"PUT contents"}
  /\ UNCHANGED << setup_call, config, instance_attrs, pc, repo_idx, automation_result,
                  automation_status, engine_locals, calls, faults, remote_tags,
                  remote_branches, writes, up_args, upload_data, read_seen,
                  prev_call >>

\* Another client of the host writes a path of the branch.
ConcurrentWrite ==
  /\ pc = "direct"
  /\ writes < MaxWrites
  /\ \E path \in UploadPaths, content \in WriterContents :
       remote_files' = [remote_files EXCEPT ![path] = content]
  /\ writes' = writes + 1
  /\ UNCHANGED << setup_call, config, instance_attrs, pc, repo_idx, automation_result,
                  automation_status, engine_locals, request_log, calls, faults,
                  remote_tags, remote_branches, upload_locals >>

NextUpload ==
  \/ UploadCall
  \/ UploadGetRef
  \/ UploadGetContents
  \/ UploadPutContents
  \/ ConcurrentWrite

SpecUpload == InitUpload /\ [][NextUpload]_vars

\* ------------------------------- setup_repository_structure, called directly
InitSetup ==
  /\ config \in Configs
  /\ instance_attrs = ClassMethods
  /\ pc = "direct"
  /\ EngineIdle
  /\ remote_tags = <<>>
  /\ remote_branches = {}
  /\ remote_files = << >>
  /\ writes = 0
  /\ UploadIdle
  /\ setup_call = NoSetupCall

\* A caller invokes setup_repository_structure; the host answers each request
\* the method issues.
DirectSetup ==
  /\ pc = "direct"
  /\ \E get \in {"200", "404", "403", EXC}, create \in {"201", "422", EXC},
        patch \in {"200", "403", EXC}, prot \in {"200", "403", EXC} :
       /\ request_log' = SetupRequests(get, create, patch, prot)
       /\ setup_call' =
            [ called |-> TRUE, get |-> get, create |-> create, patch |-> patch,
              prot |-> prot, raised |-> SetupError(get, create, patch, prot) ]
  /\ UNCHANGED << config, instance_attrs, pc, repo_idx, automation_result,
                  automation_status, engine_locals, calls, faults, remote_vars,
                  upload_locals >>

NextSetup == DirectSetup

SpecSetup == InitSetup /\ [][NextSetup]_vars

\* ------------------- the batch of main() and direct upload calls, side by side
InitBatchOrUpload == Init \/ InitUpload

NextBatchOrUpload == Next \/ NextUpload

SpecBatchOrUpload == InitBatchOrUpload /\ [][NextBatchOrUpload]_vars

\* ================================================================ claims
StepNames ==
  << "repository_setup", "branch_strategy", "content_generation", "cicd_pipeline",
     "quality_gates", "zenodo_doi", "automated_pr", "automated_release",
     "monitoring_analytics" >>

MandatoryCore == { "repository_setup", "branch_strategy", "content_generation" }

Steps == Range(automation_result.steps_completed)

\* Requests that belong to the k-th step operation.
RequestsOfStep(k) ==
  CASE k = 1 -> { "GET repo", "POST user/repos", "PATCH repo", "PUT protection" }
    [] k = 2 -> { "GET ref main", "POST git/refs" }
    [] k = 3 -> { "GET ref branch", "GET contents", "PUT contents" }
    [] k = 7 -> { "POST pulls" }
    [] k = 8 -> { "GET tags", "POST releases" }
    [] OTHER -> {}

\* The last step operation the run invoked (0: none).
LastCalled ==
  LET called == { k \in DOMAIN StepOps : calls[StepOps[k]] > 0 }
  IN IF called = {} THEN 0 ELSE CHOOSE k \in called : \A j \in called : j <= k

\* C1: when initialize_repository_automation has returned, success is true
\* exactly if repository setup, branch strategy and content generation all
\* completed; hence a failed or skipped DOI, pull-request or release step
\* leaves success true.
C1_SuccessIffMandatoryCompleted ==
  pc = "returned" =>
    (automation_result.success <=> MandatoryCore \subseteq Steps)

\* C1 witness: a returned run with success although the pull request and the
\* release failed and the DOI step was skipped.
C1_Witness ==
  /\ pc = "returned"
  /\ automation_result.success
  /\ pr_result.called /\ ~pr_result.success
  /\ release_result.called /\ ~release_result.success
  /\ ~doi_result.called

\* C2: when a run returned without reaching the last step (a step raised),
\* success is false, the message is in the error field, steps_completed holds
\* exactly the names of the steps before the raising step k, and no step after
\* k was invoked or issued a request; with k = 1 steps_completed is empty.
C2_AbortAtRaisingStep ==
  (pc = "returned" /\ calls["setup_monitoring_analytics"] = 0) =>
    LET k == LastCalled
    IN /\ k \in 1..3
       /\ ~automation_result.success
       /\ automation_result.error # NoError
       /\ automation_result.steps_completed = SubSeq(StepNames, 1, k - 1)
       /\ \A j \in (k + 1)..Len(StepOps) :
            /\ calls[StepOps[j]] = 0
            /\ request_log \cap RequestsOfStep(j) = {}

\* C2 witness: repository setup raised because the create request was refused.
C2_Witness ==
  /\ pc = "returned"
  /\ automation_result.error = "Failed to create repository"
  /\ automation_result.steps_completed = <<>>
  /\ "POST user/repos" \in request_log

\* C3: a file whose upload returned false is not listed in artifacts_created.
C3_FailedUploadOmitted ==
  \A i \in DOMAIN upload_returns :
    ~upload_returns[i] =>
      ContentFiles[i].path \notin Range(automation_result.artifacts_created)

\* C9: a failed pull request or release is visible in the returned result as
\* that step's outcome (the step is not listed as completed), the error field
\* stays unset and the following steps still run.
C9_OptionalFailureRecorded ==
  pc = "returned" =>
    /\ (pr_result.called /\ ~pr_result.success) =>
         /\ "automated_pr" \notin Steps
         /\ automation_result.error = NoError
         /\ calls["setup_monitoring_analytics"] = 1
    /\ (release_result.called /\ ~release_result.success) =>
         /\ "automated_release" \notin Steps
         /\ automation_result.error = NoError
         /\ calls["setup_monitoring_analytics"] = 1

\* C10: once steps 1-5 completed with auto_release enabled, the run does not
\* pass step 8 without invoking create_automated_release exactly once,
\* whatever the DOI and pull-request steps did.
C10_ReleaseRunsRegardless ==
  ( /\ config.auto_release
    /\ "quality_gates" \in Steps
    /\ pc \in {"monitoring_analytics", "returned"} ) =>
      /\ release_result.called
      /\ calls["create_automated_release"] = 1
      /\ "GET tags" \in request_log

\* C10 witness: the DOI step was skipped for want of a credential, the pull
\* request failed, and the release succeeded.
C10_Witness ==
  /\ pc = "returned"
  /\ config.auto_doi /\ config.zenodo_token = None /\ ~doi_result.called
  /\ pr_result.called /\ ~pr_result.success
  /\ release_result.success

\* Version components the tags of a run can carry.
ClaimVers == 0..(MaxVer + MaxTags)

HasPrefix(s, p) == Len(p) <= Len(s) /\ SubSeq(s, 1, Len(p)) = p

\* v<major>.  and  v<major>.<minor>.
MajorPrefix(a) == <<"v">> \o IntToStr(a) \o <<".">>

MinorPrefix(a, b) == MajorPrefix(a) \o IntToStr(b) \o <<".">>

\* C6: with level basic and a prior tag vA.B.C the release step computes
\* vA.B.(C+1).
C6_BasicBumpsPatch ==
  (release_result.called /\ config.automation_level = "basic"
     /\ current_version # NoVersion /\ new_version # NoVersion) =>
    \A a \in ClaimVers : HasPrefix(current_version, MajorPrefix(a)) =>
      \A b \in ClaimVers : HasPrefix(current_version, MinorPrefix(a, b)) =>
        \A c \in ClaimVers :
          current_version = TagName(<<"v">>, a, b, c, <<>>) =>
            new_version = TagName(<<"v">>, a, b, c + 1, <<>>)

\* C7: with level professional, research_grade or enterprise and a prior tag
\* vA.B.C the release step computes vA.(B+1).0.
C7_HigherLevelsBumpMinor ==
  (release_result.called
     /\ config.automation_level \in {"professional", "research_grade", "enterprise"}
     /\ current_version # NoVersion /\ new_version # NoVersion) =>
    \A a \in ClaimVers : HasPrefix(current_version, MajorPrefix(a)) =>
      \A b \in ClaimVers : HasPrefix(current_version, MinorPrefix(a, b)) =>
        \A c \in ClaimVers :
          current_version = TagName(<<"v">>, a, b, c, <<>>) =>
            new_version = TagName(<<"v">>, a, b + 1, 0, <<>>)

\* C7 witness: level enterprise, prior tag v9.9.<MaxVer>, computed v9.10.0.
C7_Witness ==
  /\ release_result.called
  /\ config.automation_level = "enterprise"
  /\ current_version = TagName(<<"v">>, 9, 9, MaxVer, <<>>)
  /\ new_version = <<"v", "9", ".", "1", "0", ".", "0">>

\* C8: a call made while the repository has no tag sends v1.0.0 as the tag of
\* the release it requests, for every automation level; the request is sent
\* whenever the tags lookup is answered.
C8_NoPriorTagGivesV100 ==
  [][ (remote_tags = <<>> /\ release_result'.called) =>
        /\ new_version' \in { NoVersion, <<"v", "1", ".", "0", ".", "0">> }
        /\ new_version' = NoVersion => "POST releases" \notin request_log' ]_vars

\* C8 witness: the host had no tag and accepted the release v1.0.0, at level basic.
C8_Witness ==
  /\ config.automation_level = "basic"
  /\ release_result.success
  /\ current_version = NoVersion
  /\ remote_tags = << <<"v", "1", ".", "0", ".", "0">> >>

\* C4: no contents PUT omits the sha while a file exists at the path at the
\* moment of the write.
C4_ShaSentWhenFileExists ==
  (last_put.issued /\ last_put.before # NoFile) => last_put.sha # NoSha

\* C5: a PUT the host applied over an existing file carried the hash of the
\* version it replaced, which is the version the lookup saw; and when the file
\* changed between the lookup and the PUT, the host rejected the PUT, the
\* writer's content stayed and the call returned false.
C5_StaleWriteRejected ==
  last_put.issued =>
    /\ (last_put.accepted /\ last_put.before # NoFile) =>
         /\ last_put.sha = Sha(last_put.before)
         /\ last_put.at_read = last_put.before
    /\ last_put.at_read # last_put.before =>
         /\ ~last_put.accepted
         /\ last_put.after = last_put.before
         /\ up_return = "False"

\* C5 witness: the lookup saw doc1 and sent its hash, the writer replaced the
\* file before the PUT, and the call returned false leaving the writer's content.
C5_Witness ==
  /\ up_pc = "idle"
  /\ last_put.issued
  /\ last_put.at_read = "doc1"
  /\ last_put.sha = Sha("doc1")
  /\ last_put.before = "theirs"
  /\ last_put.after = "theirs"
  /\ up_return = "False"

\* Position of a step name in the fixed order.
StepIndex(name) == CHOOSE k \in DOMAIN StepNames : StepNames[k] = name

\* The five steps (1-5) that every run performs before the optional ones.
MandatoryBefore(k) == { StepNames[m] : m \in 1..(IF k - 1 < 5 THEN k - 1 ELSE 5) }

\* C11: in every run steps_completed is a duplicate-free subsequence of the
\* fixed order repository setup, branch strategy, content generation, CI
\* pipeline, quality gates, DOI, pull request, release, monitoring; a step
\* name is present only if every mandatory step before it is present; and no
\* step operation is invoked more than once per run.
C11_StepsInOrderNoRetry ==
  LET sc == automation_result.steps_completed
  IN /\ \A i \in DOMAIN sc : sc[i] \in Range(StepNames)
     /\ \A i, j \in DOMAIN sc : i < j => StepIndex(sc[i]) < StepIndex(sc[j])
     /\ \A i \in DOMAIN sc : MandatoryBefore(StepIndex(sc[i])) \subseteq Steps
     /\ \A op \in Range(StepOps) : calls[op] <= 1

\* C11 witness: a returned run that completed all nine steps, each operation
\* invoked once.
C11_Witness ==
  /\ pc = "returned"
  /\ automation_result.steps_completed = StepNames
  /\ \A op \in Range(StepOps) : calls[op] = 1

\* The run is past step k (1..9) of the fixed order.
PastStep(k) ==
  \/ pc = "returned" /\ (k < 9 => "quality_gates" \in Steps)
  \/ \E j \in (k + 1)..9 : pc = StepNames[j]

\* C12: an optional step is attempted only under its gate: DOI issuance only
\* if auto_doi is enabled and an archival credential is configured, pull-request
\* creation only if auto_pr is enabled, whatever the DOI outcome, and release
\* creation only if auto_release is enabled; with the gate false the step
\* issues no request and its name is absent from steps_completed.
C12_OptionalStepsOnlyUnderGate ==
  LET doi_gate == config.auto_doi /\ config.zenodo_token # None
  IN /\ calls["generate_zenodo_doi"] > 0 => doi_gate
     /\ calls["create_automated_pull_request"] > 0 => config.auto_pr
     /\ calls["create_automated_release"] > 0 => config.auto_release
     /\ ~doi_gate => "zenodo_doi" \notin Steps
     /\ ~config.auto_pr =>
          "automated_pr" \notin Steps /\ request_log \cap RequestsOfStep(7) = {}
     /\ ~config.auto_release =>
          "automated_release" \notin Steps /\ request_log \cap RequestsOfStep(8) = {}
     /\ (config.auto_pr /\ PastStep(7)) => calls["create_automated_pull_request"] = 1

\* C12 witness: a run that passed all three optional steps with every gate
\* false (auto_doi set but no credential) and attempted none of them.
C12_Witness ==
  /\ pc = "returned"
  /\ automation_result.success
  /\ config.auto_doi /\ config.zenodo_token = None
  /\ ~config.auto_pr /\ ~config.auto_release
  /\ automation_result.steps_completed =
       SubSeq(StepNames, 1, 5) \o <<"monitoring_analytics">>
  /\ request_log \cap (RequestsOfStep(7) \cup RequestsOfStep(8)) = {}

\* C13: whenever steps 1-5 completed in a run, monitoring/analytics
\* registration runs in that run, for every combination of feature flags and
\* every outcome of the DOI, pull-request and release steps.  In finite-run
\* form: a run that completed step 5 is at one of the steps 6-9 or has
\* returned; at each of the steps 6-9 the step can be taken and every step
\* taken from there moves to the next position of the fixed order; and a run
\* that returned after step 5 has invoked the monitoring registration once
\* and recorded it.
C13_MonitoringAlwaysRuns ==
  /\ []( (pc = "returned" /\ "quality_gates" \in Steps) =>
           /\ calls["setup_monitoring_analytics"] = 1
           /\ "monitoring_analytics" \in Steps )
  /\ []( (pc \notin {"main", "exit", "direct"} /\ "quality_gates" \in Steps) =>
           pc \in {"zenodo_doi", "automated_pr", "automated_release",
                   "monitoring_analytics", "returned"} )
  /\ []( pc \in {"zenodo_doi", "automated_pr", "automated_release",
                 "monitoring_analytics"} =>
           ENABLED (ZenodoDoi \/ AutomatedPullRequest \/ AutomatedRelease
                      \/ MonitoringAnalytics) )
  /\ [][ \A k \in 6..9 :
           pc = StepNames[k] =>
             pc' = (IF k = 9 THEN "returned" ELSE StepNames[k + 1]) ]_vars

\* C13 witness: monitoring ran in a run whose DOI gate was closed and whose
\* pull request and release both failed.
C13_Witness ==
  /\ pc = "returned"
  /\ "quality_gates" \in Steps
  /\ ~doi_result.called
  /\ pr_result.called /\ ~pr_result.success
  /\ release_result.called /\ ~release_result.success
  /\ calls["setup_monitoring_analytics"] = 1
  /\ "monitoring_analytics" \in Steps

\* String-valued entries of the run's result in which an identifier could be
\* written back (every field but the repository name, the configuration
\* echoes and the flags).
ResultStrings ==
  {automation_result.doi} \cup Range(automation_result.artifacts_created)
    \cup Range(automation_result.urls_generated)

\* Version-valued entries of the run's result: the result dict of lines
\* 99-108 has no field that holds a tag, and none is added later.
ResultVersions == {}

\* C14: when the DOI, pull-request or release step succeeds, its identifier
\* (DOI string, pull-request number, release tag respectively) is written
\* back into the run's result.
C14_IdentifiersWrittenBack ==
  pc = "returned" =>
    /\ doi_result.success => automation_result.doi = doi_result.id
    /\ pr_result.success => pr_result.id \in ResultStrings
    /\ release_result.success => release_result.id \in ResultVersions

\* The answers an upload_file_to_branch call received describe a failure:
\* the branch was not found, the contents PUT was denied or rejected for its
\* hash, or a request raised a transport exception.
UploadFailure(answers) ==
  \/ EXC \in Range(answers)
  \/ Len(answers) >= 1 /\ answers[1] \in {"404", "500"}
  \/ Len(answers) = 3 /\ answers[3] \in {"403", "409", "422"}

\* C15: upload_file_to_branch never raises: every finished call has returned
\* True or False, and False for every failure (branch missing, permission
\* denied, conflicting hash, transport exception), so True is returned only
\* for a write the host applied; and a failed upload inside content
\* generation does not abort the run: after one, the run has no error other
\* than the AttributeError of a generator the class lacks, and with all
\* generators present it completes content generation and returns success.
C15_UploadNeverRaises ==
  /\ (pc = "direct" /\ up_pc = "idle" /\ up_args # NoArgs) =>
       /\ up_return \in {"True", "False"}
       /\ UploadFailure(up_answers) => up_return = "False"
       /\ up_return = "True" => (last_put.issued /\ last_put.accepted)
  /\ (pc # "direct" /\ \E i \in DOMAIN upload_returns : ~upload_returns[i]) =>
       /\ automation_result.error # NoError =>
            (automation_result.error = "AttributeError" /\ instance_attrs = ClassMethods)
       /\ (pc = "returned" /\ instance_attrs # ClassMethods) =>
            (automation_result.success /\ "content_generation" \in Steps)

\* C15 witness: a direct call whose contents PUT was denied returned False.
C15_Witness ==
  /\ pc = "direct" /\ up_pc = "idle"
  /\ up_answers = <<"200", "404", "403">>
  /\ up_return = "False"
  /\ remote_files[up_args.path] = NoFile

\* The host answered all three requests of a call and none of the answers
\* was a server error, a denial or a transport exception.
HostAnswered(answers) ==
  /\ Len(answers) = 3
  /\ Range(answers) \cap {"500", "403", EXC} = {}

\* The call that just finished repeats the call before it, the earlier call
\* found the path absent, the host answered both calls, and nobody else wrote
\* the path between the earlier call's write and this call's write.
PublishedTwice ==
  /\ pc = "direct" /\ up_pc = "idle"
  /\ up_args # NoArgs /\ prev_call.args = up_args
  /\ HostAnswered(prev_call.answers) /\ HostAnswered(up_answers)
  /\ prev_call.put.at_read = NoFile /\ prev_call.put.before = NoFile
  /\ last_put.at_read = prev_call.put.after
  /\ last_put.before = prev_call.put.after

\* C16: publishing the same (repository, branch, path, content) twice with
\* no other writer: the first call sends a create without hash and succeeds,
\* the second call sends an update carrying the hash of the version the first
\* call wrote and succeeds, and the file content on the remote after the
\* second call equals the content after the first.
C16_PublishTwiceIdempotent ==
  PublishedTwice =>
    /\ prev_call.put.sha = NoSha
    /\ prev_call.ret = "True" /\ prev_call.put.accepted
    /\ prev_call.put.after = up_args.content
    /\ last_put.sha = Sha(prev_call.put.after)
    /\ up_return = "True" /\ last_put.accepted
    /\ last_put.after = prev_call.put.after

\* C16 witness: README.md published twice with the same content: a create
\* answered 201, then an update answered 200.
C16_Witness ==
  /\ PublishedTwice
  /\ up_args.path = "README.md"
  /\ prev_call.answers = <<"200", "404", "201">>
  /\ up_answers = <<"200", "200", "200">>
  /\ last_put.sha # NoSha
  /\ last_put.after = up_args.content

\* C17: each repository run appends to the process-wide status: after a run
\* for repository r, r is in repositories_processed, and every DOI issued,
\* branch created, pull request created and release published by that run is
\* in the corresponding list of automation_status.
C17_StatusListsAppended ==
  pc = "returned" =>
    /\ automation_result.repository
         \in Range(automation_status.repositories_processed)
    /\ doi_result.success =>
         doi_result.id \in Range(automation_status.dois_generated)
    /\ Range(created_branches) \subseteq Range(automation_status.branches_created)
    /\ pr_result.success =>
         pr_result.id \in Range(automation_status.prs_created)
    /\ release_result.success =>
         release_result.id \in Range(automation_status.releases_published)

\* C18: a fatal error in one repository's run never terminates the batch: it
\* is turned into that result's error field plus exactly one (repository,
\* error) entry in the status error list, no entry is added for a successful
\* run, and the next repository of the batch is still attempted.  As steps:
\* the error list changes only when a run returns, by exactly the entry of
\* that run's error if it has one and not at all otherwise; from a returned
\* run, failed or not, main() moves on to the next repository; a run of the
\* next repository can start whenever one is left; and main() ends only
\* after the last repository.
C18_FatalErrorContained ==
  /\ [][ LET returns == pc # "returned" /\ pc' = "returned"
             err == automation_result'.error
         IN /\ automation_status'.errors # automation_status.errors => returns
            /\ returns =>
                 /\ err # NoError <=> ~automation_result'.success
                 /\ automation_status'.errors =
                      IF err # NoError
                      THEN Append(automation_status.errors,
                                  [ repository |-> automation_result'.repository,
                                    error |-> err ])
                      ELSE automation_status.errors ]_vars
  /\ [][ pc = "returned" => (pc' = "main" /\ repo_idx' = repo_idx + 1) ]_vars
  /\ []( (pc = "main" /\ repo_idx <= Len(test_repositories)) => ENABLED StartRun )
  /\ []( pc = "returned" => ENABLED MainReport )
  /\ []( pc = "exit" => repo_idx = Len(test_repositories) + 1 )

\* C18 witness: the first repository's run failed, leaving one entry in the
\* error list, and the second repository's run was made and succeeded.
C18_Witness ==
  /\ pc = "returned"
  /\ repo_idx = 2
  /\ automation_result.repository = test_repositories[2]
  /\ automation_result.success
  /\ Len(automation_status.errors) = 1
  /\ automation_status.errors[1].repository = test_repositories[1]

\* C19: in the branch strategy step, a branch whose creation request is
\* rejected (for example because the branch already exists) is omitted from
\* the created-branches list without failing the step, and creation of the
\* remaining branches of the fixed working set is still attempted: the list
\* holds, in order, exactly the branches whose request was answered 201;
\* while branches remain the next creation can be attempted, whatever the
\* earlier answers; the step completes only after all of them were attempted;
\* and if the step fails, it is for a failed lookup of the main branch or a
\* transport exception, never for a rejection.
C19_RejectedBranchOmitted ==
  /\ Len(branch_answers) <= Len(branches_to_create)
  /\ \A i \in DOMAIN branch_answers :
       branches_to_create[i] \in Range(created_branches) <=> branch_answers[i] = "201"
  /\ Len(created_branches) =
       Cardinality({ i \in DOMAIN branch_answers : branch_answers[i] = "201" })
  /\ \A i, j \in DOMAIN created_branches :
       i < j => \E a, b \in DOMAIN branches_to_create :
                  /\ a < b
                  /\ branches_to_create[a] = created_branches[i]
                  /\ branches_to_create[b] = created_branches[j]
  /\ (pc = "branch_strategy" /\ Len(branch_answers) < Len(branches_to_create)) =>
       ENABLED CreateBranch
  /\ "branch_strategy" \in Steps =>
       /\ Len(branch_answers) = Len(branches_to_create)
       /\ SubSeq(automation_result.artifacts_created, 1, Len(created_branches))
            = created_branches
  /\ (pc = "returned" /\ LastCalled = 2) =>
       automation_result.error \in {"RequestException", "Failed to get main branch SHA"}

\* C19 witness: the creation of develop was rejected, the two other branches
\* were created, and the step completed.
C19_Witness ==
  /\ "branch_strategy" \in Steps
  /\ branch_answers = <<"422", "201", "201">>
  /\ created_branches = SubSeq(branches_to_create, 2, 3)

\* A list without repetitions.
NoDuplicates(seq) == Cardinality(Range(seq)) = Len(seq)

\* C20: the branch plan resolved for github_flow is exactly the branch set
\* {main, feature/} with only {main} protected, and for research_flow exactly
\* {main, develop, feature/, research/, manuscript/, release/} with
\* {main, develop} protected; the lookup is total over the three strategies
\* of the enum: once a run has entered the branch strategy step, the plan it
\* looked up for the configured strategy is that one, and every strategy of
\* the enum has a plan that names its branches and protects main.
C20_BranchPlanPerStrategy ==
  /\ calls["implement_branch_strategy"] > 0 =>
       /\ strategy_config # NoStrategyConfig
       /\ NoDuplicates(strategy_config.branches)
       /\ NoDuplicates(strategy_config.protection)
       /\ config.branch_strategy = "github_flow" =>
            /\ Range(strategy_config.branches) = {"main", "feature/"}
            /\ Range(strategy_config.protection) = {"main"}
       /\ config.branch_strategy = "research_flow" =>
            /\ Range(strategy_config.branches) =
                 {"main", "develop", "feature/", "research/", "manuscript/", "release/"}
            /\ Range(strategy_config.protection) = {"main", "develop"}
  /\ config.branch_strategy \in BranchStrategies
  /\ \A s \in BranchStrategies :
       /\ s \in DOMAIN branch_configs
       /\ "main" \in Range(branch_configs[s].protection)
       /\ Range(branch_configs[s].protection) \subseteq Range(branch_configs[s].branches)

\* C20 witness: a run configured with github_flow completed the branch
\* strategy step with the two-branch plan.
C20_Witness ==
  /\ config.branch_strategy = "github_flow"
  /\ "branch_strategy" \in Steps
  /\ strategy_config.branches = <<"main", "feature/">>
  /\ strategy_config.protection = <<"main">>

\* A run has returned under level basic, strategy github_flow, auto-doi off,
\* auto-pr and auto-release on, with no request rejected or raising and no
\* prior tag in the repository.
ScenarioBasicGithubFlow ==
  /\ pc = "returned"
  /\ config.automation_level = "basic" /\ config.branch_strategy = "github_flow"
  /\ ~config.auto_doi /\ config.auto_pr /\ config.auto_release
  /\ faults = 0
  /\ automation_result.error \notin
       {"RequestException", "Failed to create repository",
        "Failed to get main branch SHA"}
  /\ \A i \in DOMAIN upload_returns : upload_returns[i]
  /\ pr_result.called => pr_result.success
  /\ release_result.called => (release_result.success /\ current_version = NoVersion)

\* C21: for level basic, strategy github_flow, auto-doi false, auto-pr true,
\* auto-release true, no prior tags and every remote request succeeding, the
\* run ends with completed steps exactly repository setup, branch_strategy,
\* content_generation, cicd_pipeline, quality_gates, automated_pr,
\* automated_release, monitoring_analytics in that order, doi null, and
\* requested release tag v1.0.0.
C21_ScenarioCompletesEightSteps ==
  ScenarioBasicGithubFlow =>
    /\ automation_result.steps_completed =
         SubSeq(StepNames, 1, 5) \o SubSeq(StepNames, 7, 9)
    /\ automation_result.doi = None
    /\ new_version = RenderVersion(1, 0, 0)

\* The tag name with a leading V in lowercase.
LowerLeadingV(s) == IF Len(s) >= 1 /\ s[1] = "V" THEN <<"v">> \o Tail(s) ELSE s

\* C22: the release step parses a latest tag of the form MAJOR.MINOR.PATCH
\* with a leading v in either case (v or V) into the triple (MAJOR, MINOR,
\* PATCH) and increments from it (one component raised by one, the lower
\* ones reset), and the tag it renders is always prefixed with lowercase v.
C22_LeadingVEitherCase ==
  (release_result.called /\ new_version # NoVersion) =>
    /\ new_version[1] = "v"
    /\ current_version # NoVersion =>
         LET cur == LowerLeadingV(current_version)
         IN \A a \in ClaimVers : HasPrefix(cur, MajorPrefix(a)) =>
              \A b \in ClaimVers : HasPrefix(cur, MinorPrefix(a, b)) =>
                \A c \in ClaimVers :
                  cur = TagName(<<"v">>, a, b, c, <<>>) =>
                    new_version \in { RenderVersion(a, b, c + 1),
                                      RenderVersion(a, b + 1, 0),
                                      RenderVersion(a + 1, 0, 0) }

\* Steps a run can still take from its position, at most.
RunRank ==
  CASE pc = "main"                 -> 30
    [] pc = "repository_setup"     -> 29
    [] pc = "branch_strategy"      -> 24 + (Len(branches_to_create) + 1 - branch_i)
    [] pc = "content_generation"   -> 14 + (Len(ContentFiles) + 1 - file_i)
    [] pc = "cicd_pipeline"        -> 13
    [] pc = "quality_gates"        -> 12
    [] pc = "zenodo_doi"           -> 11
    [] pc = "automated_pr"         -> 10
    [] pc = "automated_release"    -> 9
    [] pc = "monitoring_analytics" -> 8
    [] pc = "returned"             -> 1
    [] OTHER                       -> 0

\* Steps the batch can still take, at most: a full run for every repository
\* not yet reported, plus the rest of the run in progress.
BatchRank ==
  IF pc = "exit" THEN 0
  ELSE (Len(test_repositories) + 1 - repo_idx) * 31 + RunRank

\* C23: repositories of a batch are processed strictly one after another in
\* list order, each exactly once, with one run's result returned before the
\* next run's first step starts; every run terminates with a returned result
\* and the batch terminates after the last repository.  As steps: a run
\* starts only from main()'s loop, for the repository at the loop index; the
\* loop index moves only when a run has returned, by one; the run in progress
\* is the one of the repository at the index; every step lowers the number of
\* steps the batch can still take, and a step is possible until main() has
\* ended, which it does only past the last repository.
C23_SequentialAndTerminating ==
  /\ [][ (pc' = "repository_setup") =>
           /\ pc = "main"
           /\ automation_result'.repository = test_repositories[repo_idx]
           /\ automation_result'.steps_completed = <<>> ]_vars
  /\ [][ (repo_idx' # repo_idx \/ pc' = "main") =>
           /\ pc = "returned"
           /\ pc' = "main"
           /\ repo_idx' = repo_idx + 1
           /\ automation_result' = automation_result ]_vars
  /\ []( pc \notin {"main", "exit"} =>
           /\ repo_idx \in DOMAIN test_repositories
           /\ automation_result.repository = test_repositories[repo_idx] )
  /\ [][ BatchRank' < BatchRank /\ BatchRank' >= 0 ]_vars
  /\ []( pc # "exit" => ENABLED Next )
  /\ []( pc = "exit" => repo_idx = Len(test_repositories) + 1 )

\* C23 witness: main() has ended after both repositories were reported, the
\* last result being the second repository's.
C23_Witness ==
  /\ pc = "exit"
  /\ repo_idx = Len(test_repositories) + 1
  /\ automation_result.repository = test_repositories[Len(test_repositories)]
  /\ automation_result.success
  /\ Len(automation_status.errors) = 1

\* The version triple of a tag of the exact form vMAJOR.MINOR.PATCH, else NoMatch.
TripleOf(tag) ==
  LET m == VersionMatch(tag)
  IN IF m # NoMatch /\ tag = RenderVersion(m[1], m[2], m[3]) THEN m ELSE NoMatch

\* Version triples in their order.
TripleLess(x, y) ==
  \/ x[1] < y[1]
  \/ x[1] = y[1] /\ x[2] < y[2]
  \/ x[1] = y[1] /\ x[2] = y[2] /\ x[3] < y[3]

\* C24: the tag that create_automated_release requests is never a tag that
\* already exists in the repository's tag list and is strictly greater (as a
\* version triple) than every parseable existing tag, for every content and
\* order of the tag list returned by the host, including a list whose first
\* entry is not the highest version or does not parse.
C24_RequestedTagIsNew ==
  [][ (release_result'.called /\ "POST releases" \in request_log') =>
        /\ new_version' \notin Range(remote_tags)
        /\ \A t \in Range(remote_tags) :
             TripleOf(t) # NoMatch => TripleLess(TripleOf(t), TripleOf(new_version')) ]_vars

\* C25: steps_completed contains automated_pr (and likewise
\* automated_release) only if the pull-request (release) creation request of
\* that run succeeded, in the same way that zenodo_doi is contained only if
\* DOI issuance returned success.
C25_OptionalStepNameMeansSuccess ==
  /\ "zenodo_doi" \in Steps => doi_result.success
  /\ "automated_pr" \in Steps => pr_result.success
  /\ "automated_release" \in Steps => release_result.success

\* C26: every branch that a run created on the remote during the branch
\* strategy step is listed in that run's artifacts_created, also when the
\* run aborts because the default-branch tip lookup fails after some
\* branches of the working set were already created.
C26_CreatedBranchesListed ==
  pc = "returned" =>
    \A i \in DOMAIN branch_answers :
      branch_answers[i] = "201" =>
        branches_to_create[i] \in Range(automation_result.artifacts_created)

\* C27: in every returned result the following agree: success is true, the
\* error field is absent, urls_generated holds the three repository URLs, and
\* monitoring_analytics is the last element of steps_completed; when success
\* is false the error field is present and urls_generated is empty.
C27_ReturnedResultConsistent ==
  pc = "returned" =>
    LET sc == automation_result.steps_completed
        no_error == automation_result.error = NoError
        three_urls == automation_result.urls_generated = RepositoryUrls
        monitoring_last == sc # <<>> /\ sc[Len(sc)] = "monitoring_analytics"
    IN /\ automation_result.success <=> no_error
       /\ automation_result.success <=> three_urls
       /\ automation_result.success <=> monitoring_last
       /\ ~automation_result.success =>
            (automation_result.error # NoError
               /\ automation_result.urls_generated = <<>>)

\* C27 witness: both kinds of returned result occur in one batch: the first
\* run failed (its entry is in the error list), the second succeeded with
\* the three URLs and monitoring_analytics last.
C27_Witness ==
  /\ pc = "returned"
  /\ Len(automation_status.errors) = 1
  /\ automation_result.success
  /\ automation_result.error = NoError
  /\ Len(automation_result.urls_generated) = 3
  /\ automation_result.steps_completed[Len(automation_result.steps_completed)]
       = "monitoring_analytics"

\* C28: in every state of a run, result.doi is non-null if and only if
\* zenodo_doi is in steps_completed, and both imply that auto_doi is enabled
\* and an archival credential is configured.
C28_DoiIffStepRecorded ==
  /\ automation_result.doi # None <=> "zenodo_doi" \in Steps
  /\ automation_result.doi # None =>
       (config.auto_doi /\ config.zenodo_token # None)
  /\ "zenodo_doi" \in Steps =>
       (config.auto_doi /\ config.zenodo_token # None)

\* C28 witness: a run that has recorded the DOI step, the doi field set, and
\* is at a later step.
C28_Witness ==
  /\ pc = "automated_release"
  /\ "zenodo_doi" \in Steps
  /\ automation_result.doi = doi_result.id
  /\ automation_result.doi # None
  /\ config.auto_doi /\ config.zenodo_token # None

\* C29: when the target branch does not exist on the remote,
\* upload_file_to_branch returns false without issuing any content read or
\* content write request, so the remote file state is unchanged by the call:
\* a call to a missing branch never gets past the ref lookup, it ends
\* returning False with the ref lookup as its only request and no PUT, and
\* no step of such a call changes a file of the remote (only another writer
\* does).
C29_MissingBranchNoContentRequests ==
  /\ []( (pc = "direct" /\ up_args # NoArgs /\ up_args.branch \notin remote_branches) =>
           /\ up_pc \in {"ref", "idle"}
           /\ request_log \cap {"GET contents", "PUT contents"} = {}
           /\ ~last_put.issued
           /\ up_pc = "idle" =>
                (up_return = "False" /\ request_log = {"GET ref branch"}) )
  /\ [][ (pc = "direct" /\ up_args' # NoArgs /\ up_args'.branch \notin remote_branches
            /\ writes' = writes) =>
           remote_files' = remote_files ]_vars

\* C29 witness: a call for README.md on the missing branch develop returned
\* False after the ref lookup alone, the file on the remote as it was.
C29_Witness ==
  /\ pc = "direct" /\ up_pc = "idle"
  /\ remote_branches = {}
  /\ up_args.branch = "develop" /\ up_args.path = "README.md"
  /\ up_answers = <<"404">>
  /\ up_return = "False"
  /\ request_log = {"GET ref branch"}
  /\ remote_files["README.md"] = "doc1"
  /\ writes = 0

\* C30: repository setup issues a repository-create request only when the
\* repository lookup returned 404, and the step fails only when that create
\* request is answered with a status other than 201 (or a request raises); a
\* rejected settings update or a rejected branch-protection request, or a
\* lookup answered with an error status other than 404, does not fail the
\* step.
C30_SetupFailsOnlyOnCreate ==
  setup_call.called =>
    LET a == setup_call
        raises == \/ "GET repo" \in request_log /\ a.get = EXC
                  \/ "POST user/repos" \in request_log /\ a.create = EXC
                  \/ "PATCH repo" \in request_log /\ a.patch = EXC
                  \/ "PUT protection" \in request_log /\ a.prot = EXC
        create_refused == "POST user/repos" \in request_log /\ a.create \notin {"201", EXC}
    IN /\ "GET repo" \in request_log
       /\ "POST user/repos" \in request_log <=> a.get = "404"
       /\ a.raised # NoError <=> (raises \/ create_refused)
       /\ a.raised = NoError => {"PATCH repo", "PUT protection"} \subseteq request_log
       /\ (a.get \in {"200", "403"} /\ a.patch \in {"200", "403"}
             /\ a.prot \in {"200", "403"}) => a.raised = NoError

\* C30 witness: the lookup was answered 403, the settings update and the
\* protection request were both rejected, and the method returned normally
\* without a create request.
C30_Witness ==
  /\ setup_call.called
  /\ setup_call.get = "403" /\ setup_call.patch = "403" /\ setup_call.prot = "403"
  /\ setup_call.raised = NoError
  /\ request_log = {"GET repo", "PATCH repo", "PUT protection"}

====
